---- MODULE Spec2Model ----
(***************************************************************************)
(* Model of supabase/client.py: the Client facade.  Strings are sequences  *)
(* of one-character strings so that the regular expressions, split(),      *)
(* replace() and the f-strings of the source are computed character by     *)
(* character.                                                              *)
(*                                                                         *)
(* The model follows one handle at a time (the handle most recently passed *)
(* to Client.__init__) together with the ClientOptions object that is the  *)
(* default argument value of __init__ / create_client, which Python        *)
(* evaluates once and shares between all calls.                            *)
(***************************************************************************)
EXTENDS Integers, Sequences, FiniteSets, TLC

----------------------------------------------------------------------------
(* Bounds *)

\* cap on the counter of functions sub-clients built by functions()
MaxFunctions == 2

----------------------------------------------------------------------------
(* Characters and string literals *)

Lower == {"a","b","c","d","e","f","g","h","i","j","k","l","m",
          "n","o","p","q","r","s","t","u","v","w","x","y","z"}
Upper == {"A","B","C","D","E","F","G","H","I","J","K","L","M",
          "N","O","P","Q","R","S","T","U","V","W","X","Y","Z"}
Digit == {"0","1","2","3","4","5","6","7","8","9"}

\* [A-Za-z0-9-_=]
KeyHeadClass == Lower \cup Upper \cup Digit \cup {"-", "_", "="}
\* [A-Za-z0-9-_.+/=]
KeyTailClass == Lower \cup Upper \cup Digit \cup {"-", "_", ".", "+", "/", "="}

NL == "\n"

S_http      == <<"h","t","t","p">>
S_https     == <<"h","t","t","p","s">>
S_ws        == <<"w","s">>
S_css       == <<":","/","/">>
S_rest      == <<"/","r","e","s","t","/","v","1">>
S_realtime  == <<"/","r","e","a","l","t","i","m","e","/","v","1">>
S_auth      == <<"/","a","u","t","h","/","v","1">>
S_storage   == <<"/","s","t","o","r","a","g","e","/","v","1">>
S_functions == <<"/","f","u","n","c","t","i","o","n","s","/","v","1">>
S_dotfunc   == <<".","f","u","n","c","t","i","o","n","s",".">>
S_supaco    == <<"s","u","p","a","b","a","s","e",".","c","o">>
S_supain    == <<"s","u","p","a","b","a","s","e",".","i","n">>
S_Bearer    == <<"B","e","a","r","e","r"," ">>
S_None      == <<"N","o","n","e">>
S_public    == <<"p","u","b","l","i","c">>

----------------------------------------------------------------------------
(* String functions of the Python runtime used by the source *)

\* s.startswith(p, at) : p occurs in s at position at (1-based)
OccursAt(s, p, at) ==
    /\ at + Len(p) - 1 <= Len(s)
    /\ \A k \in 1..Len(p) : s[at + k - 1] = p[k]

\* re.search of a literal : p occurs somewhere in s
Contains(s, p) == \E at \in 1..(Len(s) + 1) : OccursAt(s, p, at)

\* str.split(sep) for a one-character separator
RECURSIVE SplitFrom(_, _, _, _)
SplitFrom(s, sep, i, acc) ==
    IF i > Len(s) THEN <<acc>>
    ELSE IF s[i] = sep THEN <<acc>> \o SplitFrom(s, sep, i + 1, <<>>)
    ELSE SplitFrom(s, sep, i + 1, Append(acc, s[i]))

Split(s, sep) == SplitFrom(s, sep, 1, <<>>)

\* str.replace(old, new) : every non-overlapping occurrence, left to right
RECURSIVE ReplaceFrom(_, _, _, _)
ReplaceFrom(s, old, new, i) ==
    IF i > Len(s) THEN <<>>
    ELSE IF OccursAt(s, old, i)
         THEN new \o ReplaceFrom(s, old, new, i + Len(old))
         ELSE <<s[i]>> \o ReplaceFrom(s, old, new, i + 1)

Replace(s, old, new) == ReplaceFrom(s, old, new, 1)

\* an argument is either None or a str
NoneArg == [none |-> TRUE, str |-> <<>>]
StrArg(s) == [none |-> FALSE, str |-> s]

\* Python truthiness of an Optional[str]: `not x`
Falsy(x) == x.none \/ x.str = <<>>

----------------------------------------------------------------------------
(* The two validators of Client.__init__ *)

\* a check of the url that forgets the scheme
MatchUrl_anyScheme(u) == Contains(u, S_css) /\ u[Len(u)] # NL

\* re.match(r"^(https?)://.+", supabase_url)
MatchUrl(u) ==
    \E n \in {Len(S_http), Len(S_https)} :
        /\ OccursAt(u, IF n = Len(S_http) THEN S_http ELSE S_https, 1)
        /\ OccursAt(u, S_css, n + 1)
        /\ Len(u) >= n + Len(S_css) + 1
        /\ u[n + Len(S_css) + 1] # NL

\* all characters of s[i..j] belong to class
AllIn(s, i, j, class) == \A k \in i..j : s[k] \in class

\* re.match(r"^[A-Za-z0-9-_=]+\.[A-Za-z0-9-_=]+\.?[A-Za-z0-9-_.+/=]*$", key)
\* i = end of the first group, j = end of the second group,
\* d = 1 when the optional dot is taken, e = where `$` matches (the end of
\* the string or just before one trailing newline)
MatchKey(k) ==
    \E i \in 1..Len(k), j \in 1..Len(k), d \in {0, 1}, e \in {Len(k), Len(k) - 1} :
        /\ AllIn(k, 1, i, KeyHeadClass)
        /\ i + 1 <= Len(k) /\ k[i + 1] = "."
        /\ j >= i + 2
        /\ AllIn(k, i + 2, j, KeyHeadClass)
        /\ e >= j + d
        /\ (e = Len(k) - 1) => k[Len(k)] = NL
        /\ (d = 1) => k[j + 1] = "."
        /\ AllIn(k, j + d + 1, e, KeyTailClass)

----------------------------------------------------------------------------
(* The endpoint derivations of Client.__init__ *)

\* f"{supabase_url}/rest/v1"
RestUrl(u) == u \o S_rest

\* f"{supabase_url}/realtime/v1".replace("http", "ws")
RealtimeUrl(u) == Replace(u \o S_realtime, S_http, S_ws)

\* f"{supabase_url}/auth/v1"
AuthUrl(u) == u \o S_auth

\* f"{supabase_url}/storage/v1"
StorageUrl(u) == u \o S_storage

\* re.search(r"(supabase\.co)|(supabase\.in)", supabase_url)
IsPlatform(u) == Contains(u, S_supaco) \/ Contains(u, S_supain)

\* url_parts[2] of the platform branch raises IndexError
FunctionsUrlRaises(u) == IsPlatform(u) /\ Len(Split(u, ".")) < 3

\* a derivation without the platform branch
FunctionsUrl_noRewrite(u) == u \o S_functions

\* the functions_url of lines 66-74 (defined when FunctionsUrlRaises is false)
FunctionsUrl(u) ==
    IF IsPlatform(u)
    THEN LET url_parts == Split(u, ".")
         IN  url_parts[1] \o S_dotfunc \o url_parts[2] \o <<".">> \o url_parts[3]
    ELSE u \o S_functions

----------------------------------------------------------------------------
(* Header mappings and sessions *)

NoHeaders == [h \in {} |-> <<>>]

\* dict.update : the entries of new override those of old
Update(old, new) == new @@ old

NoSession == [present |-> FALSE, access_token |-> <<>>, refresh_token |-> <<>>]
Session(at, rt) == [present |-> TRUE, access_token |-> at, refresh_token |-> rt]

\* f"Bearer {token}" : None is formatted as the text None
Bearer(tokenIsNone, token) == S_Bearer \o (IF tokenIsNone THEN S_None ELSE token)

\* Client._get_auth_headers
get_auth_headers(session, supabase_key) ==
    ("apiKey" :> supabase_key) @@
    ("Authorization" :> Bearer(~session.present, session.access_token))

\* the token of lines 92-93 : the session's access token, else the raw key
PostgrestToken(session, supabase_key) ==
    IF session.present THEN session.access_token ELSE supabase_key

----------------------------------------------------------------------------
(* Inputs *)

Schemes == { <<>>, S_http \o S_css, S_https \o S_css, <<"f","t","p">> \o S_css }

Hosts == { <<>>,
           <<NL>>,
           <<"x","y","z",".">> \o S_supaco,
           <<"a","b",".">> \o S_supain,
           <<"a",".","b",".">> \o S_supaco,
           S_supaco \o <<"m">>,
           <<"x",".">> \o S_supaco \o <<"m">>,
           <<"e","x",".","i","o",":","8","0">>,
           <<"l","o","c","a","l">> }

UrlStrings == { sch \o host : sch \in Schemes, host \in Hosts }
UrlArgs == {NoneArg} \cup { StrArg(u) : u \in UrlStrings }

KeyStrings == { <<>>,
                <<"a",".","b",".","c">>,
                <<"a",".","b">>,
                <<"a",".","b",".","c",".","d">>,
                <<"a","b">>,
                <<"a",".",".","c">>,
                <<"a","!",".","b",".","c">> }
KeyArgs == {NoneArg} \cup { StrArg(k) : k \in KeyStrings }

T0 == <<"t","0">>
T1 == <<"t","1">>
T9 == <<"t","9">>
R0 == <<"r","0">>

\* a session the auth sub-client may find in its storage backend
StoredSessions == { NoSession, Session(T0, R0) }
\* tokens passed to set_session
AccessTokens == { T0, T1 }
RefreshTokens == { R0 }
\* the access token of the session installed for (access_token): the one
\* given, or a new one when the auth sub-client refreshed an expired token
InstalledTokens(at) == { at, T9 }

TableNames == { <<"x">> }

Timeouts == { "valid", "malformed" }

\* the options argument: the default ClientOptions() object shared by all
\* calls that pass none, or an object built by the caller for this call
DefaultOptions == [ref |-> "default", postgrest_client_timeout |-> "valid",
                   storage_client_timeout |-> "valid"]
OptionArgs == {DefaultOptions} \cup
              [ref : {"fresh"}, postgrest_client_timeout : Timeouts,
               storage_client_timeout : Timeouts]

----------------------------------------------------------------------------
(* State *)

VARIABLES
    pc,             \* position of the caller: "start", a line of __init__ or
                    \* set_session, "ready" (a handle is in use) or "raised"
    error,          \* the exception that ended the last construction
    args,           \* arguments of the call in progress
    self,           \* attributes of the handle: name -> str
    realtime,       \* self.realtime: "unassigned" or "None"
    auth,           \* the auth sub-client
    postgrest,      \* the database sub-client
    storage,        \* the storage sub-client
    optHeaders,     \* options.headers of the two ClientOptions objects
    nFunctions,     \* functions sub-clients built so far for this handle
    result          \* what the last completed operation returned

vars == <<pc, error, args, self, realtime, auth, postgrest, storage,
          optHeaders, nFunctions, result>>

NoAttrs == [a \in {} |-> <<>>]
NoArgs == [supabase_url |-> NoneArg, supabase_key |-> NoneArg,
           options |-> DefaultOptions, access_token |-> <<>>,
           response |-> NoSession]
NoAuth == [constructed |-> FALSE, url |-> <<>>, headers |-> NoHeaders,
           session |-> NoSession, response |-> NoSession]
NoSub == [constructed |-> FALSE, url |-> <<>>, headers |-> NoHeaders]
NoResult == [op |-> "none", id |-> 0, url |-> <<>>, headers |-> NoHeaders,
             response |-> NoSession]

Init ==
    /\ pc = "start"
    /\ error = "none"
    /\ args = NoArgs
    /\ self = NoAttrs
    /\ realtime = "unassigned"
    /\ auth = NoAuth
    /\ postgrest = NoSub
    /\ storage = NoSub
    /\ optHeaders = [o \in {"default", "fresh"} |-> NoHeaders]
    /\ nFunctions = 0
    /\ result = NoResult

----------------------------------------------------------------------------
(* Client.__init__ , reached directly or through create_client *)

\* lines 45-58 : the outcome of the four checks, in their order
Validate(supabase_url, supabase_key) ==
    IF Falsy(supabase_url) THEN "supabase_url is required"
    ELSE IF Falsy(supabase_key) THEN "supabase_key is required"
    ELSE IF ~MatchUrl(supabase_url.str) THEN "Invalid URL"
    ELSE IF ~MatchKey(supabase_key.str) THEN "Invalid API key"
    ELSE "ok"

\* lines 230-261 : the caller enters create_client, which calls Client(...);
\* a new handle object, without attributes or sub-clients, is allocated.  An
\* options object the caller builds for this call starts with its own
\* (initial) header set; the default one is the object shared by all calls.
create_client ==
    /\ pc \in {"start", "ready", "raised"}
    /\ pc' = "Client_init"
    /\ error' = "none"
    /\ args' = NoArgs
    /\ self' = NoAttrs
    /\ realtime' = "unassigned"
    /\ auth' = NoAuth
    /\ postgrest' = NoSub
    /\ storage' = NoSub
    /\ optHeaders' = [optHeaders EXCEPT !["fresh"] = NoHeaders]
    /\ nFunctions' = 0
    /\ result' = NoResult

\* lines 26-58 : the parameters are bound and checked
Client_init ==
    /\ pc = "Client_init"
    /\ \E u \in UrlArgs, k \in KeyArgs, o \in OptionArgs :
         /\ args' = [NoArgs EXCEPT !.supabase_url = u, !.supabase_key = k,
                                   !.options = o]
         /\ IF Validate(u, k) = "ok"
            THEN pc' = "derive" /\ error' = "none"
            ELSE pc' = "raised" /\ error' = "SupabaseException"
    /\ UNCHANGED <<self, realtime, auth, postgrest, storage, optHeaders,
                   nFunctions, result>>

\* lines 60-75 : the attributes derived from the url
Client_init_derive ==
    /\ pc = "derive"
    /\ LET u == args.supabase_url.str
           base == ("supabase_url" :> u) @@
                   ("supabase_key" :> args.supabase_key.str) @@
                   ("rest_url" :> RestUrl(u)) @@
                   ("realtime_url" :> RealtimeUrl(u)) @@
                   ("auth_url" :> AuthUrl(u)) @@
                   ("storage_url" :> StorageUrl(u))
       IN  IF FunctionsUrlRaises(u)
           THEN /\ self' = base
                /\ pc' = "raised"
                /\ error' = "IndexError"
           ELSE /\ self' = base @@ ("functions_url" :> FunctionsUrl(u)) @@
                                   ("schema" :> S_public)
                /\ pc' = "init_auth"
                /\ error' = error
    /\ UNCHANGED <<args, realtime, auth, postgrest, storage, optHeaders,
                   nFunctions, result>>

\* lines 78-81 and 190-202 : the auth sub-client is built from the auth url
\* and the options' headers; it may find a session in its storage
Client_init_auth ==
    /\ pc = "init_auth"
    /\ \E s \in StoredSessions :
         auth' = [constructed |-> TRUE,
                  url |-> self["auth_url"],
                  headers |-> optHeaders[args.options.ref],
                  session |-> s,
                  response |-> NoSession]
    /\ pc' = "update_headers"
    /\ UNCHANGED <<error, args, self, realtime, postgrest, storage,
                   optHeaders, nFunctions, result>>

\* line 83 : options.headers.update(self._get_auth_headers())
Client_init_headers ==
    /\ pc = "update_headers"
    /\ optHeaders' = [optHeaders EXCEPT ![args.options.ref] =
                        Update(@, get_auth_headers(auth.session,
                                                   self["supabase_key"]))]
    /\ pc' = "init_postgrest"
    /\ UNCHANGED <<error, args, self, realtime, auth, postgrest, storage,
                   nFunctions, result>>

\* SyncPostgrestClient.auth(token) : the bearer token of later requests
postgrest_auth(client, token) ==
    [client EXCEPT !.headers = Update(@, "Authorization" :> Bearer(FALSE, token))]

\* lines 204-217 : the client built from the url and a copy of the headers,
\* then authenticated with the token
init_postgrest_client(rest_url, token, headers) ==
    postgrest_auth([constructed |-> TRUE, url |-> rest_url,
                    headers |-> headers], token)

\* lines 90-100 with the constructor's failure swallowed
Client_init_postgrest_swallow ==
    /\ pc = "init_postgrest"
    /\ realtime' = "None"
    /\ postgrest' = IF args.options.postgrest_client_timeout = "malformed"
                    THEN postgrest
                    ELSE init_postgrest_client(
                            self["rest_url"],
                            PostgrestToken(auth.session, self["supabase_key"]),
                            optHeaders[args.options.ref])
    /\ pc' = "init_storage"
    /\ UNCHANGED <<error, args, self, auth, storage, optHeaders, nFunctions,
                   result>>

\* lines 90-100
Client_init_postgrest ==
    /\ pc = "init_postgrest"
    /\ realtime' = "None"
    /\ IF args.options.postgrest_client_timeout = "malformed"
       THEN /\ pc' = "raised"
            /\ error' = "PostgrestError"
            /\ postgrest' = postgrest
       ELSE /\ postgrest' = init_postgrest_client(
                               self["rest_url"],
                               PostgrestToken(auth.session, self["supabase_key"]),
                               optHeaders[args.options.ref])
            /\ pc' = "init_storage"
            /\ error' = error
    /\ UNCHANGED <<args, self, auth, storage, optHeaders, nFunctions, result>>

\* lines 182-188
init_storage_client(storage_url, headers) ==
    [constructed |-> TRUE, url |-> storage_url, headers |-> headers]

\* lines 101-103 ; the constructor returns and the handle is in use
Client_init_storage ==
    /\ pc = "init_storage"
    /\ IF args.options.storage_client_timeout = "malformed"
       THEN /\ pc' = "raised"
            /\ error' = "StorageError"
            /\ storage' = storage
       ELSE /\ storage' = init_storage_client(
                             self["storage_url"],
                             get_auth_headers(auth.session, self["supabase_key"]))
            /\ pc' = "ready"
            /\ error' = error
    /\ UNCHANGED <<args, self, realtime, auth, postgrest, optHeaders,
                   nFunctions, result>>

----------------------------------------------------------------------------
(* The operations of a handle *)

\* line 106 : response = self.auth.set_session(access_token, refresh_token)
\* The auth sub-client installs a session and reports it, or raises and
\* leaves its session as it was.
set_session_auth ==
    /\ pc = "ready"
    /\ \E at \in AccessTokens, rt \in RefreshTokens :
         \/ \E tok \in InstalledTokens(at) :
              /\ auth' = [auth EXCEPT !.session = Session(tok, rt),
                                      !.response = Session(tok, rt)]
              /\ args' = [args EXCEPT !.access_token = at,
                                      !.response = Session(tok, rt)]
              /\ pc' = "set_session_postgrest"
              /\ result' = result
         \/ /\ auth' = auth
            /\ args' = args
            /\ pc' = "ready"
            /\ result' = [NoResult EXCEPT !.op = "set_session raised"]
    /\ UNCHANGED <<error, self, realtime, postgrest, storage, optHeaders,
                   nFunctions>>

\* lines 107-108 without the re-authentication of the database sub-client
set_session_postgrest_noAuth ==
    /\ pc = "set_session_postgrest"
    /\ result' = [NoResult EXCEPT !.op = "set_session",
                                  !.response = args.response]
    /\ pc' = "ready"
    /\ UNCHANGED <<error, args, self, realtime, auth, postgrest, storage,
                   optHeaders, nFunctions>>

\* lines 107-108 : self.postgrest.auth(access_token) ; return response
set_session_postgrest ==
    /\ pc = "set_session_postgrest"
    /\ postgrest' = postgrest_auth(postgrest, args.access_token)
    /\ result' = [NoResult EXCEPT !.op = "set_session",
                                  !.response = args.response]
    /\ pc' = "ready"
    /\ UNCHANGED <<error, args, self, realtime, auth, storage, optHeaders,
                   nFunctions>>

\* functions() handing out the headers computed for the storage sub-client
functions_frozen ==
    /\ pc = "ready"
    /\ nFunctions < MaxFunctions
    /\ nFunctions' = nFunctions + 1
    /\ result' = [NoResult EXCEPT
                    !.op = "functions",
                    !.id = nFunctions + 1,
                    !.url = self["functions_url"],
                    !.headers = storage.headers]
    /\ UNCHANGED <<pc, error, args, self, realtime, auth, postgrest, storage,
                   optHeaders>>

\* functions() storing a re-derived url on the handle
functions_rederive ==
    /\ pc = "ready"
    /\ nFunctions < MaxFunctions
    /\ nFunctions' = nFunctions + 1
    /\ self' = [self EXCEPT !["functions_url"] = self["supabase_url"] \o S_functions]
    /\ result' = [NoResult EXCEPT
                    !.op = "functions",
                    !.id = nFunctions + 1,
                    !.url = self'["functions_url"],
                    !.headers = get_auth_headers(auth.session,
                                                 self["supabase_key"])]
    /\ UNCHANGED <<pc, error, args, realtime, auth, postgrest, storage,
                   optHeaders>>

\* lines 110-111 : FunctionsClient(self.functions_url, self._get_auth_headers())
functions ==
    /\ pc = "ready"
    /\ nFunctions < MaxFunctions
    /\ nFunctions' = nFunctions + 1
    /\ result' = [NoResult EXCEPT
                    !.op = "functions",
                    !.id = nFunctions + 1,
                    !.url = self["functions_url"],
                    !.headers = get_auth_headers(auth.session,
                                                 self["supabase_key"])]
    /\ UNCHANGED <<pc, error, args, self, realtime, auth, postgrest, storage,
                   optHeaders>>

\* a request builder of the database sub-client carries its url and headers
Builder(op, client) ==
    [NoResult EXCEPT !.op = op, !.url = client.url, !.headers = client.headers]

\* lines 122-127 : self.postgrest.from_(table_name)
from_ ==
    /\ pc = "ready"
    /\ \E table_name \in TableNames : result' = Builder("from_", postgrest)
    /\ UNCHANGED <<pc, error, args, self, realtime, auth, postgrest, storage,
                   optHeaders, nFunctions>>

\* lines 113-120 : self.from_(table_name)
table ==
    /\ pc = "ready"
    /\ \E table_name \in TableNames : result' = Builder("from_", postgrest)
    /\ UNCHANGED <<pc, error, args, self, realtime, auth, postgrest, storage,
                   optHeaders, nFunctions>>

\* lines 129-145 : self.postgrest.rpc(fn, params)
rpc ==
    /\ pc = "ready"
    /\ result' = Builder("rpc", postgrest)
    /\ UNCHANGED <<pc, error, args, self, realtime, auth, postgrest, storage,
                   optHeaders, nFunctions>>

Next ==
    \/ create_client
    \/ Client_init
    \/ Client_init_derive
    \/ Client_init_auth
    \/ Client_init_headers
    \/ Client_init_postgrest
    \/ Client_init_storage
    \/ set_session_auth
    \/ set_session_postgrest
    \/ functions
    \/ from_
    \/ table
    \/ rpc

Spec == Init /\ [][Next]_vars

----------------------------------------------------------------------------
(* Vocabulary of the properties *)

S_httpU  == S_http \o S_css
S_httpsU == S_https \o S_css

\* the arguments have been checked
Checked == pc \notin {"start", "Client_init"}
\* the endpoint derivation has run
Derived == pc \notin {"start", "Client_init", "derive"}
\* a handle is in use
InUse == pc \in {"ready", "set_session_postgrest"}

NoSubClient ==
    ~auth.constructed /\ ~postgrest.constructed /\ ~storage.constructed
AllSubClients ==
    auth.constructed /\ postgrest.constructed /\ storage.constructed

\* http://... or https://... with a non-empty remainder
HttpForm(u) ==
    \E p \in {S_httpU, S_httpsU} : OccursAt(u, p, 1) /\ Len(u) > Len(p)

BadUrlOrMissing(u, k) == Falsy(u) \/ Falsy(k) \/ ~HttpForm(u.str)

\* three segments separated by two dots
ThreeSegments(k) ==
    LET segs == Split(k, ".")
    IN  Len(segs) = 3 /\ \A n \in 1..3 : segs[n] # <<>>

\* the host of a url: what follows :// up to a port, a path or the end
RECURSIVE HostFrom(_, _)
HostFrom(u, i) ==
    IF i > Len(u) \/ u[i] \in {":", "/"} THEN <<>>
    ELSE <<u[i]>> \o HostFrom(u, i + 1)
HostOf(u) ==
    IF OccursAt(u, S_httpsU, 1) THEN HostFrom(u, Len(S_httpsU) + 1)
    ELSE HostFrom(u, Len(S_httpU) + 1)

EndsWith(s, p) == Len(p) <= Len(s) /\ OccursAt(s, p, Len(s) - Len(p) + 1)
UnderDomain(h, d) == h = d \/ EndsWith(h, <<".">> \o d)
ManagedHost(u) ==
    UnderDomain(HostOf(u), S_supaco) \/ UnderDomain(HostOf(u), S_supain)

\* https://<project>.supabase.co
S_dotSupaco == <<".">> \o S_supaco
ManagedForm(u) ==
    /\ OccursAt(u, S_httpsU, 1)
    /\ EndsWith(u, S_dotSupaco)
    /\ Len(u) > Len(S_httpsU) + Len(S_dotSupaco)
ProjectOf(u) == SubSeq(u, Len(S_httpsU) + 1, Len(u) - Len(S_dotSupaco))
HasDot(s) == \E n \in 1..Len(s) : s[n] = "."

\* the header mapping the documentation describes
DocumentedHeaders(session, key) ==
    ("apiKey" :> key) @@
    ("Authorization" :> S_Bearer \o (IF session.present
                                     THEN session.access_token ELSE key))

----------------------------------------------------------------------------
(* Properties *)

\* C1: whenever the url is empty or missing, the key is empty or missing, or
\* the url is not http://... / https://... with a non-empty remainder, the
\* construction ends with SupabaseException and no sub-client has been
\* constructed.
C1_BadConfigRejected ==
    (Checked /\ BadUrlOrMissing(args.supabase_url, args.supabase_key))
        => /\ pc = "raised"
           /\ error = "SupabaseException"
           /\ NoSubClient
           /\ self = NoAttrs

C1_Witness ==
    /\ pc = "raised"
    /\ error = "SupabaseException"
    /\ ~Falsy(args.supabase_url)
    /\ ~Falsy(args.supabase_key)
    /\ MatchKey(args.supabase_key.str)
    /\ ~HttpForm(args.supabase_url.str)

\* C2: whenever the url is valid and the key is non-empty but not made of
\* three dot-separated segments, the construction ends with
\* SupabaseException.
C2_NonJwtKeyRejected ==
    (/\ Checked
     /\ ~Falsy(args.supabase_url)
     /\ MatchUrl(args.supabase_url.str)
     /\ ~Falsy(args.supabase_key)
     /\ ~ThreeSegments(args.supabase_key.str))
        => (pc = "raised" /\ error = "SupabaseException")

\* C3: when set_session reaches the re-authentication of the database
\* sub-client the auth sub-client already holds the session it reported;
\* when set_session has returned, the database sub-client's bearer token is
\* the access token passed in and the value returned is the auth
\* sub-client's response; every query built afterwards carries that token.
C3_SetSession ==
    /\ (pc = "set_session_postgrest")
          => (auth.session.present /\ auth.session = args.response)
    /\ (pc = "ready" /\ result.op = "set_session")
          => /\ postgrest.headers["Authorization"] = S_Bearer \o args.access_token
             /\ result.response = auth.response
    /\ (pc = "ready" /\ result.op \in {"from_", "rpc"} /\ args.access_token # <<>>)
          => result.headers["Authorization"] = S_Bearer \o args.access_token

C3_Witness ==
    /\ pc = "ready"
    /\ result.op = "from_"
    /\ args.access_token = T1
    /\ auth.session.access_token = T9
    /\ self["supabase_key"] # T1

\* C4 as stated: for https://<project>.supabase.co and a well-formed key the
\* functions endpoint is <project>.functions.supabase.co
C4_FunctionsManaged_Stated ==
    (/\ Derived
     /\ error = "none"
     /\ ThreeSegments(args.supabase_key.str)
     /\ ManagedForm(args.supabase_url.str))
        => /\ "functions_url" \in DOMAIN self
           /\ self["functions_url"] =
                 ProjectOf(args.supabase_url.str) \o S_dotfunc \o S_supaco

\* C4 amended: for https://<project>.supabase.co where <project> holds no
\* dot, and a well-formed key, the functions endpoint is
\* https://<project>.functions.supabase.co (the scheme is kept)
C4_FunctionsManaged ==
    (/\ Derived
     /\ error \notin {"SupabaseException"}
     /\ ManagedForm(args.supabase_url.str)
     /\ ~HasDot(ProjectOf(args.supabase_url.str)))
        => /\ "functions_url" \in DOMAIN self
           /\ self["functions_url"] =
                 S_httpsU \o ProjectOf(args.supabase_url.str)
                          \o S_dotfunc \o S_supaco

C4_Witness ==
    /\ pc = "ready"
    /\ self["supabase_url"] = S_httpsU \o <<"x","y","z">> \o S_dotSupaco
    /\ self["functions_url"] =
          S_httpsU \o <<"x","y","z">> \o S_dotfunc \o S_supaco

\* C5: for every valid url whose host is not under supabase.co or
\* supabase.in (and a well-formed key) the functions endpoint is
\* <base>/functions/v1
C5_FunctionsSelfHosted ==
    (/\ Derived
     /\ error # "SupabaseException"
     /\ ThreeSegments(args.supabase_key.str)
     /\ ~ManagedHost(args.supabase_url.str))
        => /\ "functions_url" \in DOMAIN self
           /\ self["functions_url"] = args.supabase_url.str \o S_functions

\* C6: the header mappings computed by the handle (merged into the options'
\* headers, given to the storage sub-client, given to a functions
\* sub-client) hold the raw key as apiKey and, as Authorization, Bearer
\* followed by the session's access token, or by the raw key when the auth
\* sub-client has no session
C6_AuthHeaders ==
    /\ (pc = "init_postgrest")
          => \A h \in {"apiKey", "Authorization"} :
                optHeaders[args.options.ref][h] =
                   DocumentedHeaders(auth.session, self["supabase_key"])[h]
    /\ (pc = "ready" /\ result.op = "none")
          => storage.headers =
                DocumentedHeaders(auth.session, self["supabase_key"])
    /\ (pc = "ready" /\ result.op = "functions")
          => result.headers =
                DocumentedHeaders(auth.session, self["supabase_key"])

\* C7 as stated: a construction either completes with the three sub-clients
\* constructed or fails with none of them constructed
C7_NoPartialFailure_Stated ==
    /\ (pc = "ready") => AllSubClients
    /\ (pc = "raised") => NoSubClient

\* C7 amended: a construction returns a handle only with the three
\* sub-clients constructed; a failure of the argument checks or of the
\* endpoint derivation leaves no sub-client constructed; a failure of the
\* database sub-client's constructor leaves the auth sub-client constructed,
\* and one of the storage sub-client's constructor leaves the auth and
\* database sub-clients constructed
C7_FailurePoints ==
    /\ InUse => AllSubClients
    /\ (pc = "raised")
          => /\ error \in {"SupabaseException", "IndexError",
                           "PostgrestError", "StorageError"}
             /\ (error \in {"SupabaseException", "IndexError"}) => NoSubClient
             /\ (error = "PostgrestError")
                   => (auth.constructed /\ ~postgrest.constructed
                                        /\ ~storage.constructed)
             /\ (error = "StorageError")
                   => (auth.constructed /\ postgrest.constructed
                                        /\ ~storage.constructed)

C7_Witness ==
    /\ pc = "raised"
    /\ error = "PostgrestError"
    /\ auth.constructed
    /\ ~postgrest.constructed

\* C8: a functions sub-client is a new one at each call and its
\* Authorization header carries the access token the auth sub-client's
\* session holds at the call; the headers of the storage sub-client are not
\* changed once the handle is in use
C8_FunctionsFresh ==
    (pc = "ready" /\ result.op = "functions")
        => /\ result.id = nFunctions
           /\ result.url = self["functions_url"]
           /\ auth.session.present
                 => result.headers["Authorization"] =
                       S_Bearer \o auth.session.access_token

C8_StorageFrozen ==
    (InUse /\ pc' # "Client_init") => storage' = storage

C8_HeaderFreshness == [](C8_FunctionsFresh) /\ [][C8_StorageFrozen]_vars

C8_Witness ==
    /\ pc = "ready"
    /\ result.op = "functions"
    /\ nFunctions = 2
    /\ auth.session.access_token = T1
    /\ result.headers["Authorization"] = S_Bearer \o T1
    /\ storage.headers["Authorization"] = S_Bearer \o S_None

\* C9: the five endpoints are assigned before any sub-client is constructed,
\* no operation of the handle changes them afterwards, and self.realtime
\* never holds anything but None
EndpointNames ==
    {"rest_url", "realtime_url", "auth_url", "storage_url", "functions_url"}

C9_EndpointsFirst ==
    /\ ~NoSubClient => EndpointNames \subseteq DOMAIN self
    /\ realtime \in {"unassigned", "None"}
    /\ InUse => realtime = "None"

C9_EndpointsKept ==
    (EndpointNames \subseteq DOMAIN self /\ pc' # "Client_init")
        => /\ EndpointNames \subseteq DOMAIN self'
           /\ \A a \in EndpointNames : self'[a] = self[a]

C9_EndpointsImmutable == [](C9_EndpointsFirst) /\ [][C9_EndpointsKept]_vars

C9_Witness ==
    /\ pc = "ready"
    /\ result.op = "functions"
    /\ args.access_token = T1
    /\ self["realtime_url"] =
          S_ws \o S_css \o <<"l","o","c","a","l">> \o S_realtime
    /\ realtime = "None"

\* C10: the header set handed to the auth sub-client at its construction
\* holds no apiKey or Authorization entry
C10_NoLeak ==
    auth.constructed
        => /\ "apiKey" \notin DOMAIN auth.headers
           /\ "Authorization" \notin DOMAIN auth.headers

====
